---- MODULE Spec2Model ----
(***************************************************************************)
(* Model of robinhood_app.py: a Streamlit script that is re-run in full on *)
(* every user interaction.  A run calls load_data() (memoised by           *)
(* st.cache_data), derives the chronological and monthly cumulative P/L    *)
(* series, the per-instrument rankings, the summary metrics and the        *)
(* holding-period partition, and renders them.                             *)
(*                                                                         *)
(* State that survives a run: the file closed_positions.csv on disk and    *)
(* the st.cache_data entry of load_data; for observation, what the last    *)
(* run produced and how each pd.read_csv call so far ended.                *)
(*                                                                         *)
(* Amounts are integers in units of the smallest amount of the file.  A    *)
(* column read_csv infers as int64 is summed exactly; a float64 column is  *)
(* summed with round-to-nearest-even at MantissaBits significant bits (the *)
(* model's stand-in for the 53 bits of a double).                          *)
(***************************************************************************)
EXTENDS Integers, Sequences, FiniteSets, TLC

VARIABLES file, cache, out, reads

vars == <<file, cache, out, reads>>

(***************************************************************************)
(* Bounds of the model.                                                    *)
(***************************************************************************)
MantissaBits == 2
MaxRows == 3
MaxVersions == 3
MaxReads == 3
MaxInstruments == 22
MaxPattern == 3

(* head(10) at lines 41 and 42. *)
TopN == 10

(***************************************************************************)
(* Arithmetic of a realized_profit_loss column.                            *)
(***************************************************************************)
RECURSIVE Pow2(_)
Pow2(n) == IF n = 0 THEN 1 ELSE 2 * Pow2(n - 1)

Abs(x) == IF x < 0 THEN 0 - x ELSE x

Min(a, b) == IF a <= b THEN a ELSE b

RECURSIVE ExponentOf(_)
ExponentOf(mag) == IF mag < Pow2(MantissaBits) THEN 0 ELSE 1 + ExponentOf(mag \div 2)

(* The nearest value with MantissaBits significant bits, ties to the even  *)
(* mantissa: what a float64 operation does to its exact result.            *)
RoundFloat(x) ==
    LET mag == Abs(x)
        e == ExponentOf(mag)
        q == mag \div Pow2(e)
        r == mag % Pow2(e)
        half == Pow2(e) \div 2
        up == r > half \/ (r = half /\ q % 2 = 1)
        res == (IF up THEN q + 1 ELSE q) * Pow2(e)
    IN  IF e = 0 THEN x ELSE IF x < 0 THEN 0 - res ELSE res

(* a + b in a column of the given dtype. *)
Add(dtype, a, b) == IF dtype = "float64" THEN RoundFloat(a + b) ELSE a + b

(* Series.cumsum(): the running sum, left to right. *)
CumSum(dtype, v) ==
    LET acc[i \in 0..Len(v)] == IF i = 0 THEN 0 ELSE Add(dtype, acc[i - 1], v[i])
    IN  [i \in 1..Len(v) |-> acc[i]]

(* Series.sum(): numpy's reduction, which adds fewer than 8 elements left  *)
(* to right from 0 (longer float64 columns are not drawn by any            *)
(* specification here; for int64 the grouping is immaterial).  An empty    *)
(* column sums to 0.                                                       *)
SeriesSum(dtype, v) ==
    LET acc[i \in 0..Len(v)] == IF i = 0 THEN 0 ELSE Add(dtype, acc[i - 1], v[i])
    IN  acc[Len(v)]

(* GroupBy.sum() / Resampler.sum(): pandas' group_sum, a Kahan-compensated *)
(* sum of the group's values in row order; an empty group sums to 0.       *)
GroupSum(dtype, v) ==
    LET st[i \in 0..Len(v)] ==
            IF i = 0 THEN [sum |-> 0, comp |-> 0]
            ELSE LET prev == st[i - 1]
                     y == Add(dtype, v[i], 0 - prev.comp)
                     t == Add(dtype, prev.sum, y)
                 IN  [sum |-> t,
                      comp |-> Add(dtype, Add(dtype, t, 0 - prev.sum), 0 - y)]
    IN  st[Len(v)].sum

(* Series.mean() as the exact fraction num/den; den = 0 stands for NaN,    *)
(* the mean of no values.                                                  *)
Mean(v) ==
    LET acc[i \in 0..Len(v)] == IF i = 0 THEN 0 ELSE acc[i - 1] + v[i]
    IN  [num |-> acc[Len(v)], den |-> Len(v)]

(***************************************************************************)
(* load_data: pd.read_csv and pd.to_datetime.                              *)
(***************************************************************************)

(* A file's table is [decimal, rows]: decimal says the amounts are written *)
(* with a decimal point, which makes read_csv infer float64, and then each *)
(* amount parses to the nearest representable value.  sell_date is         *)
(* <<month, day>>; to_datetime keeps it.  Rows get the labels 1..n.        *)
ReadCsv(t) ==
    LET dtype == IF t.decimal THEN "float64" ELSE "int64"
    IN  [dtype |-> dtype,
         rows |-> [i \in 1..Len(t.rows) |->
                    [index |-> i,
                     instrument |-> t.rows[i].instrument,
                     sell_date |-> t.rows[i].sell_date,
                     realized_profit_loss |->
                         IF t.decimal THEN RoundFloat(t.rows[i].realized_profit_loss)
                         ELSE t.rows[i].realized_profit_loss,
                     holding_period_days |-> t.rows[i].holding_period_days]]]

(***************************************************************************)
(* Sorting.                                                                *)
(***************************************************************************)

(* DataFrame.sort_values(by=...) with the default kind='quicksort', which  *)
(* is not a stable sort: every ascending arrangement of the keys is a      *)
(* possible result (numpy's argsort of an int64 or float64 column is, by   *)
(* build, an introsort or a SIMD sorting network).  The result is given as *)
(* the sequence of positions.                                              *)
RECURSIVE SortOrdersFrom(_, _)
SortOrdersFrom(keys, rem) ==
    IF rem = {} THEN {<<>>}
    ELSE LET lo == CHOOSE k \in {keys[i] : i \in rem} : \A j \in rem : k <= keys[j]
             firsts == {i \in rem : keys[i] = lo}
         IN  UNION {{<<i>> \o rest : rest \in SortOrdersFrom(keys, rem \ {i})} : i \in firsts}

SortOrders(keys) == SortOrdersFrom(keys, DOMAIN keys)

(* The ascending arrangement that keeps equal keys in their original order. *)
RECURSIVE StableOrderFrom(_, _)
StableOrderFrom(keys, rem) ==
    IF rem = {} THEN <<>>
    ELSE LET lo == CHOOSE k \in {keys[i] : i \in rem} : \A j \in rem : k <= keys[j]
             first == CHOOSE i \in rem : keys[i] = lo /\ \A j \in rem : keys[j] = lo => i <= j
         IN  <<first>> \o StableOrderFrom(keys, rem \ {first})

StableOrder(keys) == StableOrderFrom(keys, DOMAIN keys)

(* A datetime as a number that orders like it (a month has at most 31 days). *)
DateOrdinal(d) == d[1] * 31 + d[2]

MonthOf(d) == d[1]

(***************************************************************************)
(* Lines 28-29: closed_positions_df_sorted with cumulative_pl.             *)
(***************************************************************************)
(* sort_values(by='sell_date'), default kind.  For a datetime64 column     *)
(* numpy's quicksort is its generic introsort, which sorts a range of at   *)
(* most 17 elements by insertion, keeping equal keys in order, and         *)
(* partitions a longer one, which does not.                                *)
ChronologicalOrders(df) ==
    LET keys == [i \in 1..Len(df.rows) |-> DateOrdinal(df.rows[i].sell_date)]
    IN  IF Len(df.rows) <= 17 THEN {StableOrder(keys)} ELSE SortOrders(keys)

SortedWithCumulative(df, ord) ==
    LET cum == CumSum(df.dtype, [i \in 1..Len(ord) |-> df.rows[ord[i]].realized_profit_loss])
    IN  [i \in 1..Len(ord) |->
            [index |-> df.rows[ord[i]].index,
             sell_date |-> df.rows[ord[i]].sell_date,
             realized_profit_loss |-> df.rows[ord[i]].realized_profit_loss,
             cumulative_pl |-> cum[i]]]

(***************************************************************************)
(* Lines 32-33: monthly_pl.  resample('ME') makes one bucket per calendar  *)
(* month from the first to the last sell_date, empty months included (their*)
(* sum is 0); then the running sum over the buckets.                       *)
(***************************************************************************)
MonthlyBuckets(dtype, sorted) ==
    IF Len(sorted) = 0 THEN <<>>
    ELSE LET first == MonthOf(sorted[1].sell_date)
             last == MonthOf(sorted[Len(sorted)].sell_date)
             InMonth(r, m) == MonthOf(r.sell_date) = m
             amounts(m) == LET sel == SelectSeq(sorted, LAMBDA r : InMonth(r, m))
                           IN  [i \in 1..Len(sel) |-> sel[i].realized_profit_loss]
         IN  [k \in 1..(last - first + 1) |-> GroupSum(dtype, amounts(first + k - 1))]

(* Faulty variant of MonthlySeries: line 33 left out, cumulative_pl is the  *)
(* month's own sum.                                                        *)
MonthlySeriesNoCumsum(dtype, sorted) ==
    LET sums == MonthlyBuckets(dtype, sorted)
    IN  [k \in 1..Len(sums) |->
            [month |-> MonthOf(sorted[1].sell_date) + k - 1,
             realized_profit_loss |-> sums[k],
             cumulative_pl |-> sums[k]]]

MonthlySeries(dtype, sorted) ==
    LET sums == MonthlyBuckets(dtype, sorted)
        cum == CumSum(dtype, sums)
    IN  [k \in 1..Len(sums) |->
            [month |-> MonthOf(sorted[1].sell_date) + k - 1,
             realized_profit_loss |-> sums[k],
             cumulative_pl |-> cum[k]]]

(***************************************************************************)
(* Lines 36-42: instrument_performance and the two rankings.               *)
(***************************************************************************)
RECURSIVE AscendingSeq(_)
AscendingSeq(S) ==
    IF S = {} THEN <<>>
    ELSE LET lo == CHOOSE x \in S : \A y \in S : x <= y
         IN  <<lo>> \o AscendingSeq(S \ {lo})

(* groupby('instrument').agg(...).reset_index(): one row per instrument,   *)
(* in ascending order of the instrument (groupby sorts its keys).          *)
InstrumentPerformance(df) ==
    LET names == AscendingSeq({df.rows[i].instrument : i \in 1..Len(df.rows)})
        group(n) == SelectSeq(df.rows, LAMBDA r : r.instrument = n)
    IN  [k \in 1..Len(names) |->
            LET g == group(names[k])
            IN  [instrument |-> names[k],
                 total_pl |-> GroupSum(df.dtype, [i \in 1..Len(g) |-> g[i].realized_profit_loss]),
                 num_trades |-> Len(g),
                 avg_holding_period |-> Mean([i \in 1..Len(g) |-> g[i].holding_period_days])]]

(* Faulty variant of head: no truncation. *)
headUntruncated(s) == s

(* DataFrame.head(10). *)
head(s) == SubSeq(s, 1, Min(TopN, Len(s)))

(* Faulty variant of TopOrders: ascending=False left out. *)
TopOrdersAscending(perf) == SortOrders([k \in 1..Len(perf) |-> perf[k].total_pl])

(* sort_values(by='total_pl', ascending=False) *)
TopOrders(perf) == SortOrders([k \in 1..Len(perf) |-> 0 - perf[k].total_pl])

(* sort_values(by='total_pl', ascending=True) *)
BottomOrders(perf) == SortOrders([k \in 1..Len(perf) |-> perf[k].total_pl])

Ranking(perf, ord) == head([k \in 1..Len(ord) |-> perf[ord[k]]])

(***************************************************************************)
(* Lines 57-68: the summary metrics.                                       *)
(***************************************************************************)
Amounts(df) == [i \in 1..Len(df.rows) |-> df.rows[i].realized_profit_loss]

ProfitableTrades(df) == SelectSeq(df.rows, LAMBDA r : r.realized_profit_loss > 0)

(* Faulty variant of WinRate: wins over losses instead of wins over trades. *)
WinLossRatio(count, total) == [num |-> 100 * count, den |-> total - count]

(* Faulty variant of WinRate: the total_trades > 0 guard left out. *)
WinRateUnguarded(count, total) == [num |-> 100 * count, den |-> total]

(* (count / total) * 100 if total > 0 else 0, as the exact fraction        *)
(* num/den; den = 0 would be a division by zero.                           *)
WinRate(count, total) ==
    IF total > 0 THEN [num |-> 100 * count, den |-> total] ELSE [num |-> 0, den |-> 1]

(***************************************************************************)
(* Lines 114-121: the holding-period partition.                            *)
(***************************************************************************)
(* Faulty variant of LosingTrades: < 0 instead of <= 0. *)
LosingTradesStrict(df) == SelectSeq(df.rows, LAMBDA r : r.realized_profit_loss < 0)

LosingTrades(df) == SelectSeq(df.rows, LAMBDA r : r.realized_profit_loss <= 0)

Assign(rs, label) ==
    [i \in 1..Len(rs) |->
        [index |-> rs[i].index,
         realized_profit_loss |-> rs[i].realized_profit_loss,
         holding_period_days |-> rs[i].holding_period_days,
         Trade_Outcome |-> label]]

CombinedHolding(df) ==
    Assign(ProfitableTrades(df), "Profitable") \o Assign(LosingTrades(df), "Losing")

(***************************************************************************)
(* Everything one run derives from the table (lines 28-42, 57-68,          *)
(* 114-121), for one result of each of the three sorts.                    *)
(***************************************************************************)
View(df, chron, top, bottom) ==
    LET sorted == SortedWithCumulative(df, chron)
        perf == InstrumentPerformance(df)
    IN  [closed_positions_df_sorted |-> sorted,
         monthly_pl |-> MonthlySeries(df.dtype, sorted),
         instrument_performance |-> perf,
         top_10_profitable |-> Ranking(perf, top),
         bottom_10_losing |-> Ranking(perf, bottom),
         total_realized_pl |-> SeriesSum(df.dtype, Amounts(df)),
         total_trades |-> Len(df.rows),
         profitable_trades_count |-> Len(ProfitableTrades(df)),
         win_rate |-> WinRate(Len(ProfitableTrades(df)), Len(df.rows)),
         avg_holding_period |-> Mean([i \in 1..Len(df.rows) |-> df.rows[i].holding_period_days]),
         profitable_trades |-> ProfitableTrades(df),
         losing_trades |-> LosingTrades(df),
         combined_holding |-> CombinedHolding(df)]

Views(df) ==
    LET perf == InstrumentPerformance(df)
    IN  {View(df, c, t, b) : c \in ChronologicalOrders(df), t \in TopOrders(perf),
                             b \in BottomOrders(perf)}

(***************************************************************************)
(* What a run leaves behind.  view is <<>> when the run halted before      *)
(* line 28, and <<v>> when it rendered v.                                  *)
(***************************************************************************)
NotRun == [outcome |-> "NotRun", input |-> "none", error_shown |-> FALSE, view |-> <<>>]

Rendered(from, v) ==
    [outcome |-> "Rendered", input |-> from, error_shown |-> FALSE, view |-> <<v>>]

(* st.error(...) then st.stop(), lines 21-22. *)
DataUnavailable ==
    [outcome |-> "DataUnavailable", input |-> "missing", error_shown |-> TRUE, view |-> <<>>]

(* An exception other than FileNotFoundError leaves load_data: the script  *)
(* run is aborted with the traceback, st.error is not called.              *)
UncaughtException ==
    [outcome |-> "UncaughtException", input |-> "unparsable", error_shown |-> FALSE,
     view |-> <<>>]

EmptyTable == [decimal |-> FALSE, rows |-> <<>>]

(***************************************************************************)
(* One run of the script, by the path load_data takes (lines 10-24).       *)
(***************************************************************************)

(* Faulty variant of RunCached: load_data without st.cache_data reads the   *)
(* file again on every run.                                                *)
RunCachedReloads ==
    /\ cache # <<>>
    /\ file.status = "ok"
    /\ Len(reads) < MaxReads
    /\ cache' = <<ReadCsv(file.table)>>
    /\ reads' = Append(reads, "ok")
    /\ \E v \in Views(ReadCsv(file.table)) : out' = Rendered("cache", v)
    /\ UNCHANGED file

(* st.cache_data has an entry: load_data's body does not run. *)
RunCached ==
    /\ cache # <<>>
    /\ \E v \in Views(cache[1]) : out' = Rendered("cache", v)
    /\ UNCHANGED <<file, cache, reads>>

(* No entry, and the file parses: the table is cached and returned. *)
RunLoad ==
    /\ cache = <<>>
    /\ file.status = "ok"
    /\ Len(reads) < MaxReads
    /\ cache' = <<ReadCsv(file.table)>>
    /\ reads' = Append(reads, "ok")
    /\ \E v \in Views(ReadCsv(file.table)) : out' = Rendered("file", v)
    /\ UNCHANGED file

(* Faulty variant of RunNotFound: the except branch returns an empty table  *)
(* after st.error, which st.cache_data then stores.                        *)
RunNotFoundCachesEmpty ==
    /\ cache = <<>>
    /\ file.status = "missing"
    /\ Len(reads) < MaxReads
    /\ reads' = Append(reads, "FileNotFoundError")
    /\ out' = DataUnavailable
    /\ cache' = <<ReadCsv(EmptyTable)>>
    /\ UNCHANGED file

(* No entry, and read_csv raises FileNotFoundError: lines 20-22.  st.stop  *)
(* leaves load_data by an exception, so nothing is cached.                 *)
RunNotFound ==
    /\ cache = <<>>
    /\ file.status = "missing"
    /\ Len(reads) < MaxReads
    /\ reads' = Append(reads, "FileNotFoundError")
    /\ out' = DataUnavailable
    /\ UNCHANGED <<file, cache>>

(* No entry, and read_csv or to_datetime raises anything else (an empty    *)
(* file, a missing sell_date column, a bad date, no read permission): no   *)
(* except clause matches.                                                  *)
RunUnparsable ==
    /\ cache = <<>>
    /\ file.status = "unparsable"
    /\ Len(reads) < MaxReads
    /\ reads' = Append(reads, "OtherError")
    /\ out' = UncaughtException
    /\ UNCHANGED <<file, cache>>

Run == RunCached \/ RunLoad \/ RunNotFound \/ RunUnparsable

(***************************************************************************)
(* The environment: closed_positions.csv changes on disk between runs.     *)
(***************************************************************************)

(* The i-th closed position of the ledger the file is exported from. *)
LedgerRow(i) ==
    [instrument |-> (i % 2) + 1,
     sell_date |-> <<i \div 2, 1>>,
     realized_profit_loss |-> IF i % 3 = 0 THEN 0 ELSE IF i % 2 = 0 THEN 0 - i ELSE i,
     holding_period_days |-> i]

FileTables ==
    {[decimal |-> FALSE, rows |-> [i \in 1..n |-> LedgerRow(i)]] : n \in 0..MaxVersions}

FileWritten ==
    /\ \E t \in FileTables : file' = [status |-> "ok", table |-> t]
    /\ UNCHANGED <<cache, out, reads>>

FileRemoved ==
    /\ file.status # "missing"
    /\ file' = [status |-> "missing", table |-> EmptyTable]
    /\ UNCHANGED <<cache, out, reads>>

FileCorrupted ==
    /\ file.status # "unparsable"
    /\ file' = [status |-> "unparsable", table |-> EmptyTable]
    /\ UNCHANGED <<cache, out, reads>>

(***************************************************************************)
(* The process from its start: nothing cached, nothing run, any file.      *)
(***************************************************************************)
Fresh == cache = <<>> /\ out = NotRun /\ reads = <<>>

Init ==
    /\ file \in {[status |-> "missing", table |-> EmptyTable],
                 [status |-> "unparsable", table |-> EmptyTable]}
                \cup {[status |-> "ok", table |-> t] : t \in FileTables}
    /\ Fresh

Next == Run \/ FileWritten \/ FileRemoved \/ FileCorrupted

Spec == Init /\ [][Next]_vars

(***************************************************************************)
(* The derived views as functions of the table: every table of at most     *)
(* MaxRows trades of one instrument, over dates with a tie, a shared month *)
(* and an empty month between, and amounts whose float64 sum rounds.       *)
(***************************************************************************)
Big == Pow2(MantissaBits)

SeriesDates == {<<0, 1>>, <<0, 2>>, <<2, 1>>}

SeriesAmounts == {0 - Big, 0, 1, Big}

SeriesRows ==
    [instrument : {1}, sell_date : SeriesDates, realized_profit_loss : SeriesAmounts,
     holding_period_days : {2}]

SeriesTables ==
    {[decimal |-> d, rows |-> r] :
        d \in BOOLEAN, r \in UNION {[1..n -> SeriesRows] : n \in 0..MaxRows}}

InitSeries ==
    /\ file \in {[status |-> "ok", table |-> t] : t \in SeriesTables}
    /\ Fresh

NextSeries == RunLoad \/ RunCached

SpecSeries == InitSeries /\ [][NextSeries]_vars

(***************************************************************************)
(* The rankings: int64 tables of up to MaxInstruments instruments, one     *)
(* trade each on distinct dates with distinct amounts of mixed sign, with  *)
(* or without one further trade, which gives an instrument a second trade  *)
(* on the date of its first and moves its total onto a neighbour's.        *)
(***************************************************************************)
BaseRow(i, p) ==
    [instrument |-> i,
     sell_date |-> <<i \div 4, (i % 4) + 1>>,
     realized_profit_loss |-> IF i % p = 0 THEN i ELSE 0 - i,
     holding_period_days |-> i % 5]

ExtraRow(x) ==
    [instrument |-> x.instrument,
     sell_date |-> BaseRow(x.instrument, 1).sell_date,
     realized_profit_loss |-> x.amount,
     holding_period_days |-> 1]

RankTables ==
    {[decimal |-> FALSE,
      rows |-> [i \in 1..(k + Len(xs)) |->
                  IF i <= k THEN BaseRow(i, p) ELSE ExtraRow(xs[i - k])]] :
        k \in 0..MaxInstruments, p \in 1..MaxPattern,
        xs \in {<<>>} \cup {<<x>> : x \in [instrument : 1..MaxInstruments,
                                               amount : {0 - 1, 1}]}}

InitRank ==
    /\ file \in {[status |-> "ok", table |-> t] : t \in RankTables}
    /\ Fresh

NextRank == RunLoad \/ RunCached

SpecRank == InitRank /\ [][NextRank]_vars

(***************************************************************************)
(* Properties.  A state whose last run rendered holds that run's table in  *)
(* cache[1] and its results in out.view[1].                                *)
(***************************************************************************)
HasRendered == out.outcome = "Rendered"

Table == cache[1]

Shown == out.view[1]

(* The sum of the amounts of the rows at the positions in S, in exact      *)
(* arithmetic.                                                             *)
RECURSIVE ExactSum(_, _)
ExactSum(rows, S) ==
    IF S = {} THEN 0
    ELSE LET i == CHOOSE j \in S : TRUE
         IN  rows[i].realized_profit_loss + ExactSum(rows, S \ {i})

RowsOf(rows, name) == {i \in 1..Len(rows) : rows[i].instrument = name}

Instruments(rows) == {rows[i].instrument : i \in 1..Len(rows)}

(* C1: a load that fails, because the file is missing or because it is     *)
(* unparsable, ends the run as DataUnavailable: the error message is shown *)
(* and nothing is derived or rendered.                                     *)
C1_FailedLoadIsDataUnavailable ==
    out.input \in {"missing", "unparsable"} =>
        /\ out.outcome = "DataUnavailable"
        /\ out.error_shown
        /\ out.view = <<>>

(* C2: once load_data has returned a table, no later step reads the file   *)
(* or replaces the cached table, and every later run renders from exactly  *)
(* that table.                                                             *)
C2_LoadedOnce ==
    [][cache # <<>> =>
        /\ cache' = cache
        /\ reads' = reads
        /\ out' # out => /\ out'.outcome = "Rendered"
                         /\ out'.input = "cache"
                         /\ out'.view[1] \in Views(cache[1])]_vars

(* A run rendered from the cache although the file no longer holds that    *)
(* table.                                                                  *)
C2_Witness ==
    /\ HasRendered
    /\ out.input = "cache"
    /\ Len(Table.rows) > 0
    /\ (file.status # "ok" \/ ReadCsv(file.table) # Table)

(* C3 as stated: for every non-empty table the last monthly cumulative_pl, *)
(* the last chronological cumulative_pl and total_realized_pl are equal.   *)
C3_LastValuesAgree ==
    (HasRendered /\ Len(Table.rows) > 0) =>
        LET s == Shown.closed_positions_df_sorted
            m == Shown.monthly_pl
        IN  /\ m[Len(m)].cumulative_pl = s[Len(s)].cumulative_pl
            /\ s[Len(s)].cumulative_pl = Shown.total_realized_pl

(* C3 amended: for every non-empty table whose realized_profit_loss column *)
(* is int64, the three values are equal, and equal the sum of the amounts  *)
(* of all rows.                                                            *)
C3_LastValuesAgreeInt64 ==
    (HasRendered /\ Len(Table.rows) > 0 /\ Table.dtype = "int64") =>
        LET s == Shown.closed_positions_df_sorted
            m == Shown.monthly_pl
        IN  /\ m[Len(m)].cumulative_pl = s[Len(s)].cumulative_pl
            /\ s[Len(s)].cumulative_pl = Shown.total_realized_pl
            /\ Shown.total_realized_pl = ExactSum(Table.rows, 1..Len(Table.rows))

(* An int64 table that is not in date order, spans an empty month, and has *)
(* a non-zero total.                                                       *)
C3_Witness ==
    /\ HasRendered
    /\ Table.dtype = "int64"
    /\ Len(Table.rows) = 3
    /\ Len(Shown.monthly_pl) = 3
    /\ Shown.closed_positions_df_sorted[1].index # 1
    /\ Shown.total_realized_pl # 0

(* C4: win_rate is 100 * (rows with amount > 0) / total_trades, lies in    *)
(* [0, 100], and is exactly 0, with no division by zero, for an empty      *)
(* table.                                                                  *)
C4_WinRateRange ==
    HasRendered =>
        LET w == Shown.win_rate
            n == Len(Table.rows)
            wins == Cardinality({i \in 1..n : Table.rows[i].realized_profit_loss > 0})
        IN  /\ w.den > 0
            /\ 0 <= w.num /\ w.num <= 100 * w.den
            /\ w.num * n = 100 * wins * w.den
            /\ n = 0 => w.num = 0

(* A table of two trades, both wins: the rate is 100. *)
C4_Witness ==
    /\ HasRendered
    /\ Len(Table.rows) = 2
    /\ Shown.win_rate.num = 100 * Shown.win_rate.den

(* C5: each ranking has min(10, k) rows for k distinct instruments, no     *)
(* instrument twice; the top ranking is in descending and the bottom in    *)
(* ascending order of total_pl, and no instrument left out of a ranking    *)
(* belongs in it before one that is in; total_pl is the sum and num_trades *)
(* the number of the instrument's rows.                                    *)
C5_Rankings ==
    HasRendered =>
        LET rows == Table.rows
            k == Cardinality(Instruments(rows))
            top == Shown.top_10_profitable
            bot == Shown.bottom_10_losing
            Total(n) == ExactSum(rows, RowsOf(rows, n))
            Names(r) == {r[i].instrument : i \in 1..Len(r)}
            RowsRight(r) ==
                \A i \in 1..Len(r) :
                    /\ r[i].instrument \in Instruments(rows)
                    /\ r[i].total_pl = Total(r[i].instrument)
                    /\ r[i].num_trades = Cardinality(RowsOf(rows, r[i].instrument))
        IN  /\ Len(top) = Min(10, k) /\ Len(bot) = Min(10, k)
            /\ Cardinality(Names(top)) = Len(top) /\ Cardinality(Names(bot)) = Len(bot)
            /\ RowsRight(top) /\ RowsRight(bot)
            /\ \A i \in 1..(Len(top) - 1) : top[i].total_pl >= top[i + 1].total_pl
            /\ \A i \in 1..(Len(bot) - 1) : bot[i].total_pl <= bot[i + 1].total_pl
            /\ \A n \in Instruments(rows) \ Names(top) :
                   \A i \in 1..Len(top) : Total(n) <= top[i].total_pl
            /\ \A n \in Instruments(rows) \ Names(bot) :
                   \A i \in 1..Len(bot) : Total(n) >= bot[i].total_pl
            /\ k < 10 => Names(top) = Instruments(rows) /\ Names(bot) = Instruments(rows)

(* More than 10 instruments, one of them with two trades, and two totals   *)
(* tied across the cut of the top ranking.                                 *)
C5_Witness ==
    /\ HasRendered
    /\ Len(Shown.instrument_performance) > 10
    /\ \E i \in 1..Len(Shown.top_10_profitable) : Shown.top_10_profitable[i].num_trades = 2
    /\ \E i \in 1..Len(Shown.instrument_performance) :
           /\ Shown.instrument_performance[i].total_pl = Shown.top_10_profitable[10].total_pl
           /\ \A j \in 1..10 : Shown.top_10_profitable[j].instrument
                                   # Shown.instrument_performance[i].instrument

(* Fewer than 10 instruments: both rankings hold them all. *)
C5_WitnessFew ==
    /\ HasRendered
    /\ Len(Shown.instrument_performance) = 7
    /\ Len(Shown.top_10_profitable) = 7

(* C6: a ranking has at most n = 10 rows, and with more than 2n distinct   *)
(* instruments the least total_pl of the top ranking is at least the       *)
(* greatest of the bottom ranking.                                         *)
C6_TopAboveBottom ==
    HasRendered =>
        LET top == Shown.top_10_profitable
            bot == Shown.bottom_10_losing
        IN  /\ Len(top) <= 10 /\ Len(bot) <= 10
            /\ Cardinality(Instruments(Table.rows)) > 2 * 10 =>
                   \A i \in 1..Len(top), j \in 1..Len(bot) : top[i].total_pl >= bot[j].total_pl

(* More than 20 instruments. *)
C6_Witness ==
    /\ HasRendered
    /\ Cardinality(Instruments(Table.rows)) > 2 * 10
    /\ Len(Shown.top_10_profitable) = 10
    /\ Len(Shown.bottom_10_losing) = 10

(* C7: every row is in exactly one of profitable_trades (amount > 0) and   *)
(* losing_trades (amount <= 0); the sizes add up to the row count; and     *)
(* combined_holding has every row once, labelled by its subset.            *)
C7_Partition ==
    HasRendered =>
        LET n == Len(Table.rows)
            P == Shown.profitable_trades
            L == Shown.losing_trades
            C == Shown.combined_holding
            In(r, i) == \E j \in 1..Len(r) : r[j].index = i
        IN  /\ Len(P) + Len(L) = n
            /\ \A i \in 1..n :
                   /\ In(P, i) # In(L, i)
                   /\ In(P, i) <=> Table.rows[i].realized_profit_loss > 0
                   /\ In(L, i) <=> Table.rows[i].realized_profit_loss <= 0
                   /\ Cardinality({j \in 1..Len(C) : C[j].index = i}) = 1
                   /\ \A j \in 1..Len(C) :
                          C[j].index = i =>
                              C[j].Trade_Outcome =
                                  IF Table.rows[i].realized_profit_loss > 0
                                  THEN "Profitable" ELSE "Losing"
            /\ Len(C) = n

(* A win, a loss and a break-even trade. *)
C7_Witness ==
    /\ HasRendered
    /\ Len(Shown.profitable_trades) = 1
    /\ Len(Shown.losing_trades) = 2
    /\ \E j \in 1..3 : /\ Shown.combined_holding[j].realized_profit_loss = 0
                       /\ Shown.combined_holding[j].Trade_Outcome = "Losing"

(* C8: a load of a table with no rows is followed by a run that renders:   *)
(* total P/L 0, trade count 0, win rate 0 (no division by zero), and every *)
(* derived view empty.                                                     *)
C8_EmptyTable ==
    (cache # <<>> /\ Len(Table.rows) = 0) =>
        /\ HasRendered
        /\ Shown.total_realized_pl = 0
        /\ Shown.total_trades = 0
        /\ Shown.win_rate.num = 0 /\ Shown.win_rate.den > 0
        /\ Shown.closed_positions_df_sorted = <<>>
        /\ Shown.monthly_pl = <<>>
        /\ Shown.top_10_profitable = <<>>
        /\ Shown.bottom_10_losing = <<>>
        /\ Shown.profitable_trades = <<>>
        /\ Shown.losing_trades = <<>>
        /\ Shown.combined_holding = <<>>

(* The empty table was loaded and rendered. *)
C8_Witness ==
    /\ HasRendered
    /\ Len(Table.rows) = 0
    /\ reads = <<"ok">>

(* C9 as stated: closed_positions_df_sorted is in ascending sell_date      *)
(* order with cumulative_pl the running sum, and rows of equal sell_date   *)
(* keep the order they have in the loaded table.                           *)
C9_StableChronological ==
    HasRendered =>
        LET s == Shown.closed_positions_df_sorted
        IN  /\ Len(s) = Len(Table.rows)
            /\ \A i \in 1..Len(s) :
                   /\ s[i].sell_date = Table.rows[s[i].index].sell_date
                   /\ s[i].cumulative_pl =
                          Add(Table.dtype, IF i = 1 THEN 0 ELSE s[i - 1].cumulative_pl,
                              Table.rows[s[i].index].realized_profit_loss)
            /\ \A i, j \in 1..Len(s) :
                   i < j => \/ DateOrdinal(s[i].sell_date) < DateOrdinal(s[j].sell_date)
                            \/ /\ s[i].sell_date = s[j].sell_date
                               /\ s[i].index < s[j].index

(* C10: a run that ends DataUnavailable caches nothing, and a run that     *)
(* finds nothing cached and the file present reads it, caches it and       *)
(* renders it.                                                             *)
C10_FailureNotCached ==
    [][/\ (reads' # reads /\ out'.outcome = "DataUnavailable") => cache' = <<>>
       /\ cache' # cache => /\ reads' = Append(reads, "ok")
                            /\ cache' = <<ReadCsv(file.table)>>
       /\ (reads' # reads /\ cache = <<>> /\ file.status = "ok") =>
              /\ cache' = <<ReadCsv(file.table)>>
              /\ out'.outcome = "Rendered"
              /\ out'.input = "file"
              /\ out'.view[1] \in Views(ReadCsv(file.table))]_vars

(* The file was not found, and the next read loaded and rendered it. *)
C10_Witness ==
    /\ reads = <<"FileNotFoundError", "ok">>
    /\ HasRendered
    /\ out.input = "file"
    /\ Len(Table.rows) > 0

====
